---- MODULE Spec2Model ----
(***************************************************************************)
(* Model of fancy_matplotlib: the BasePlot rendering template              *)
(* (plotting_template.py) and its four variants LineChart, SingleBarChart, *)
(* MultipleBarChart and Histogram (chart_templates.py).                    *)
(*                                                                         *)
(* One chart object is alive at a time.  A render (BasePlot.__call__) is   *)
(* followed method by method: pc names the method that runs next, calls is *)
(* the list of pyplot/axes primitives the render in progress has issued,   *)
(* rc is pyplot's process-wide text/font configuration.                    *)
(*                                                                         *)
(* Python values are records [t, n, d, s, l]: t is the type tag, n/d the   *)
(* number (d = 1 for an int), s the string, l the elements of a list or    *)
(* array.                                                                  *)
(***************************************************************************)
EXTENDS Integers, Sequences, FiniteSets, TLC

VARIABLES chart, pc, err, calls, stages, rc, tableau20

vars == <<chart, pc, err, calls, stages, rc, tableau20>>

(***************************************************************************)
(* Bounds of the explored inputs                                           *)
(***************************************************************************)
\* longest x series / flat y series that is constructed
MaxLabels == 2
\* largest number of y series; one more than the palette has colours
MaxSeries == 21
\* largest histogram bin count
MaxBins == 2
\* largest number of histogram input sequences
MaxHistSeqs == 2

(***************************************************************************)
(* Python values                                                           *)
(***************************************************************************)
RECURSIVE GCD(_, _)
GCD(a, b) == IF b = 0 THEN a ELSE GCD(b, a % b)

Abs(a) == IF a < 0 THEN -a ELSE a

PyNone == [t |-> "none", n |-> 0, d |-> 1, s |-> "", l |-> <<>>]
PyInt(k) == [t |-> "int", n |-> k, d |-> 1, s |-> "", l |-> <<>>]
PyStr(str) == [t |-> "str", n |-> 0, d |-> 1, s |-> str, l |-> <<>>]
PyList(seq) == [t |-> "list", n |-> 0, d |-> 1, s |-> "", l |-> seq]
PyArray(seq) == [t |-> "array", n |-> 0, d |-> 1, s |-> "", l |-> seq]
PyTuple(seq) == [t |-> "tuple", n |-> 0, d |-> 1, s |-> "", l |-> seq]

\* a float with the exact value num/den, den > 0, in lowest terms
PyFloat(num, den) ==
    LET g == GCD(Abs(num), den)
    IN  [t |-> "float", n |-> num \div g, d |-> den \div g, s |-> "", l |-> <<>>]

IsNum(v) == v.t \in {"int", "float"}
IsSeq(v) == v.t \in {"list", "array"}

\* arithmetic on numbers; the result is a float
Add(a, b) == PyFloat(a.n * b.d + b.n * a.d, a.d * b.d)
Sub(a, b) == PyFloat(a.n * b.d - b.n * a.d, a.d * b.d)
Mul(a, b) == PyFloat(a.n * b.n, a.d * b.d)
Div(a, b) == IF b.n > 0 THEN PyFloat(a.n * b.d, a.d * b.n)
                        ELSE PyFloat(-(a.n * b.d), a.d * (-b.n))
Less(a, b) == a.n * b.d < b.n * a.d
NumEq(a, b) == a.n * b.d = b.n * a.d

\* floor and ceiling of a number, as integers
Floor(a) == a.n \div a.d
Ceil(a) == -((-a.n) \div a.d)
\* int(x): truncation toward zero
Trunc(a) == IF a.n >= 0 THEN a.n \div a.d ELSE -((-a.n) \div a.d)

\* the category labels used as string data, in increasing string order
LabelNames == <<"A", "B", "C", "D", "E">>

StrRank(str) == CHOOSE i \in 1..Len(LabelNames) : LabelNames[i] = str

\* Python's < on two values of the same kind (numbers, or strings)
PyLess(a, b) ==
    IF a.t = "str" THEN StrRank(a.s) < StrRank(b.s) ELSE Less(a, b)

\* min(seq) and max(seq) of a non-empty comparable sequence
PyMin(seq) ==
    seq[CHOOSE i \in 1..Len(seq) :
            /\ \A j \in 1..Len(seq) : ~PyLess(seq[j], seq[i])
            /\ \A j \in 1..(i - 1) : PyLess(seq[i], seq[j])]

PyMax(seq) ==
    seq[CHOOSE i \in 1..Len(seq) :
            /\ \A j \in 1..Len(seq) : ~PyLess(seq[i], seq[j])
            /\ \A j \in 1..(i - 1) : PyLess(seq[j], seq[i])]

\* range(start, stop, step) over ints, step > 0
PyRange(start, stop, step) ==
    LET cnt == IF stop > start THEN (stop - start + step - 1) \div step ELSE 0
    IN  [i \in 1..cnt |-> PyInt(start + (i - 1) * step)]

\* np.arange(start, stop) over ints
IntArange(start, stop) == PyRange(start, stop, 1)

\* np.arange(start, stop, step) over floats, step > 0
FloatArange(start, stop, step) ==
    LET span == Sub(stop, start)
        cnt == IF span.n > 0 THEN Ceil(Div(span, step)) ELSE 0
    IN  [i \in 1..cnt |-> Add(start, Mul(PyInt(i - 1), step))]

\* sorted(seq) of numbers
RECURSIVE Sorted(_)
Sorted(seq) ==
    IF Len(seq) = 0 THEN <<>>
    ELSE LET m == CHOOSE i \in 1..Len(seq) :
                      \A j \in 1..Len(seq) : ~Less(seq[j], seq[i])
             rest == [k \in 1..(Len(seq) - 1) |->
                          IF k < m THEN seq[k] ELSE seq[k + 1]]
         IN  <<seq[m]>> \o Sorted(rest)

\* the elements of all sequences of seqs, concatenated
RECURSIVE Concat(_)
Concat(seqs) ==
    IF Len(seqs) = 0 THEN <<>> ELSE Head(seqs) \o Concat(Tail(seqs))

(***************************************************************************)
(* The palette                                                             *)
(***************************************************************************)
PaletteRGB ==
    << <<31, 119, 180>>, <<174, 199, 232>>, <<255, 127, 14>>, <<255, 187, 120>>,
       <<44, 160, 44>>, <<152, 223, 138>>, <<214, 39, 40>>, <<255, 152, 150>>,
       <<148, 103, 189>>, <<197, 176, 213>>, <<140, 86, 75>>, <<196, 156, 148>>,
       <<227, 119, 194>>, <<247, 182, 210>>, <<127, 127, 127>>, <<199, 199, 199>>,
       <<188, 189, 34>>, <<219, 219, 141>>, <<23, 190, 207>>, <<158, 218, 229>> >>

\* the module-level loop that scales every channel to the unit range
NormalisedPalette ==
    [i \in 1..Len(PaletteRGB) |->
        PyTuple([j \in 1..3 |-> PyFloat(PaletteRGB[i][j], 255)])]

DEFAULT_BAR_WIDTH == PyFloat(8, 10)

(***************************************************************************)
(* np.histogram(x_array, bins=num_bins): num_bins equal-width bins over    *)
(* [min, max] of the samples; a degenerate range is widened by 0.5 on each *)
(* side; the last bin is closed on the right.                              *)
(***************************************************************************)
np_histogram(x_array, num_bins) ==
    LET lo0 == PyMin(x_array)
        hi0 == PyMax(x_array)
        lo == IF NumEq(lo0, hi0) THEN Sub(lo0, PyFloat(1, 2)) ELSE Add(lo0, PyInt(0))
        hi == IF NumEq(lo0, hi0) THEN Add(hi0, PyFloat(1, 2)) ELSE Add(hi0, PyInt(0))
        width == Sub(hi, lo)
        edges == [i \in 1..(num_bins + 1) |->
                     Add(lo, Div(Mul(PyInt(i - 1), width), PyInt(num_bins)))]
        BinOf(v) == IF NumEq(v, hi) THEN num_bins
                    ELSE Floor(Div(Mul(Sub(v, lo), PyInt(num_bins)), width)) + 1
        counts == [b \in 1..num_bins |->
                      PyInt(Cardinality({i \in 1..Len(x_array) : BinOf(x_array[i]) = b}))]
    IN  [hist |-> counts, bin_edges |-> edges]

(***************************************************************************)
(* Constructors                                                            *)
(***************************************************************************)
NoChart ==
    [variant |-> "none", x_data |-> PyNone, converted_x_data |-> PyNone,
     y_data |-> PyNone, diff_x_ticks |-> 1, diff_y_ticks |-> 10,
     x_axis_label |-> PyNone, y_axis_label |-> PyNone, y_descriptors |-> PyNone,
     title |-> PyNone, min_x |-> PyNone, max_x |-> PyNone, min_y |-> PyNone,
     max_y |-> PyNone, ax |-> PyNone, grid_range |-> PyNone,
     bar_width |-> PyNone, num_bins |-> PyNone, bins |-> PyNone]

\* BasePlot.__init__
BasePlot_init(x_data, y_data, dx, dy, xl, yl, desc, title) ==
    [variant |-> "BasePlot", x_data |-> x_data, converted_x_data |-> x_data,
     y_data |-> y_data, diff_x_ticks |-> dx, diff_y_ticks |-> dy,
     x_axis_label |-> xl, y_axis_label |-> yl, y_descriptors |-> desc,
     title |-> title, min_x |-> PyNone, max_x |-> PyNone, min_y |-> PyNone,
     max_y |-> PyNone, ax |-> PyNone, grid_range |-> PyNone,
     bar_width |-> PyNone, num_bins |-> PyNone, bins |-> PyNone]

\* LineChart.__init__
LineChart_init(x_data, y_data, dx, dy, xl, yl, desc, title) ==
    [BasePlot_init(x_data, y_data, dx, dy, xl, yl, desc, title)
        EXCEPT !.variant = "LineChart"]

\* SingleBarChart.__init__
SingleBarChart_init(x_data, y_data, dx, dy, xl, yl, desc, title) ==
    [BasePlot_init(x_data, y_data, dx, dy, xl, yl, desc, title)
        EXCEPT !.variant = "SingleBarChart",
               !.converted_x_data = PyArray(IntArange(0, Len(x_data.l)))]

MultipleBarChart_bar_width_le(y_data) ==
    IF Len(y_data.l) <= 5 THEN PyFloat(1, 4) ELSE PyFloat(1, 10)

\* the bar-width heuristic of MultipleBarChart.__init__
MultipleBarChart_bar_width(y_data) ==
    IF Len(y_data.l) < 5 THEN PyFloat(1, 4) ELSE PyFloat(1, 10)

\* MultipleBarChart.__init__
MultipleBarChart_init(x_data, y_data, dx, dy, xl, yl, desc, title) ==
    [BasePlot_init(x_data, y_data, dx, dy, xl, yl, desc, title)
        EXCEPT !.variant = "MultipleBarChart",
               !.converted_x_data = PyArray(IntArange(0, Len(x_data.l))),
               !.bar_width = MultipleBarChart_bar_width(y_data)]

Histogram_max_y_last(x_data, num_bins) ==
    PyMax(np_histogram(x_data.l[Len(x_data.l)].l, num_bins).hist)

\* max_y of Histogram.__init__: the largest count among the concatenated
\* per-bin counts of all input sequences
Histogram_max_y(x_data, num_bins) ==
    PyMax(Concat([i \in 1..Len(x_data.l) |->
                     np_histogram(x_data.l[i].l, num_bins).hist]))

\* Histogram.__init__
Histogram_init(x_data, num_bins, dx, dy, xl, yl, desc, title) ==
    [BasePlot_init(x_data, PyNone, dx, dy, xl, yl, desc, title)
        EXCEPT !.variant = "Histogram",
               !.num_bins = PyInt(num_bins),
               !.bins = PyList(Concat([i \in 1..Len(x_data.l) |->
                            np_histogram(x_data.l[i].l, num_bins).bin_edges])),
               !.min_y = PyInt(0),
               !.max_y = Histogram_max_y(x_data, num_bins)]

(***************************************************************************)
(* Inputs                                                                  *)
(***************************************************************************)
\* n category labels, and the n numeric positions 0..n-1
Labels(n) == PyList([i \in 1..n |-> PyStr(LabelNames[i])])
Positions(n) == PyList([i \in 1..n |-> PyInt(i - 1)])

XData == {Labels(n) : n \in 0..MaxLabels} \cup {Positions(n) : n \in 1..MaxLabels}

\* the i-th y series, of m values
SeriesValues(i, m) == [j \in 1..m |-> PyInt(10 * (((i + j) % 3) + 1))]

FlatY(m) == PyList(SeriesValues(0, m))
NestedY(k, m) == PyList([i \in 1..k |-> PyList(SeriesValues(i, m))])
NestedArrayY(k, m) == PyList([i \in 1..k |-> PyArray(SeriesValues(i, m))])
MixedY == PyList(<<PyInt(10), PyList(SeriesValues(1, 2))>>)

YData ==
    {FlatY(m) : m \in 0..MaxLabels}
        \cup {NestedY(k, m) : k \in 1..MaxSeries, m \in 1..MaxLabels}
        \cup {NestedArrayY(2, m) : m \in 1..MaxLabels}
        \cup {MixedY}

XTickSteps == {1, 2}
YTickSteps == {10}

\* one legend entry per element of data
Descriptors(data) ==
    PyList([i \in 1..Len(data.l) |-> PyStr("Line " \o ToString(i))])

\* raw sample sequences for histograms
Samples ==
    { PyArray(<<PyInt(5)>>),
      PyArray(<<PyInt(0), PyInt(1), PyInt(4)>>),
      PyArray(<<PyInt(2), PyInt(2), PyInt(3), PyInt(9)>>) }

HistXData ==
    {PyList(seq) : seq \in UNION {[1..q -> Samples] : q \in 1..MaxHistSeqs}}

Variants == {"BasePlot", "LineChart", "SingleBarChart", "MultipleBarChart"}

(***************************************************************************)
(* Initial state, construction and disposal                                         *)
(***************************************************************************)
Init ==
    /\ chart = NoChart
    /\ pc = "idle"
    /\ err = "none"
    /\ calls = <<>>
    /\ stages = <<>>
    /\ rc = [usetex |-> FALSE, family |-> "sans-serif"]
    /\ tableau20 = NormalisedPalette

Idle == pc \in {"idle", "done", "error"}

\* chart = BasePlot(...) | LineChart(...) | SingleBarChart(...) | MultipleBarChart(...)
Construct ==
    /\ pc = "idle"
    /\ chart.variant = "none"
    /\ \E variant \in Variants, x_data \in XData, y_data \in YData,
          dx \in XTickSteps, dy \in YTickSteps, annotated \in BOOLEAN :
          LET xl == IF annotated THEN PyStr("Sample x-axis") ELSE PyNone
              yl == IF annotated THEN PyStr("Sample y-axis") ELSE PyNone
              title == IF annotated THEN PyStr("Sample plot") ELSE PyNone
              desc == IF annotated THEN Descriptors(y_data) ELSE PyNone
          IN  chart' =
                CASE variant = "BasePlot" ->
                        BasePlot_init(x_data, y_data, dx, dy, xl, yl, desc, title)
                  [] variant = "LineChart" ->
                        LineChart_init(x_data, y_data, dx, dy, xl, yl, desc, title)
                  [] variant = "SingleBarChart" ->
                        SingleBarChart_init(x_data, y_data, dx, dy, xl, yl, desc, title)
                  [] variant = "MultipleBarChart" ->
                        MultipleBarChart_init(x_data, y_data, dx, dy, xl, yl, desc, title)
    /\ UNCHANGED <<pc, err, calls, stages, rc, tableau20>>

\* chart = Histogram(x_data, num_bins, ...)
ConstructHistogram ==
    /\ pc = "idle"
    /\ chart.variant = "none"
    /\ \E x_data \in HistXData, num_bins \in 1..MaxBins,
          dx \in XTickSteps, dy \in YTickSteps, annotated \in BOOLEAN :
          LET xl == IF annotated THEN PyStr("Sample x-axis") ELSE PyNone
              yl == IF annotated THEN PyStr("Sample y-axis") ELSE PyNone
              title == IF annotated THEN PyStr("Sample plot") ELSE PyNone
              desc == IF annotated THEN Descriptors(x_data) ELSE PyNone
          IN  chart' = Histogram_init(x_data, num_bins, dx, dy, xl, yl, desc, title)
    /\ UNCHANGED <<pc, err, calls, stages, rc, tableau20>>

\* the chart object goes out of scope once no render of it is in progress;
\* pyplot's rc settings outlive it
Discard ==
    /\ Idle
    /\ chart.variant # "none"
    /\ chart' = NoChart
    /\ pc' = "idle"
    /\ err' = "none"
    /\ calls' = <<>>
    /\ stages' = <<>>
    /\ UNCHANGED <<rc, tableau20>>

(***************************************************************************)
(* pyplot primitives, as recorded in calls                                 *)
(***************************************************************************)
Prim(op, x, y, color, label, extra) ==
    [op |-> op, x |-> x, y |-> y, color |-> color, label |-> label,
     extra |-> extra]

Prim0(op) == Prim(op, PyNone, PyNone, PyNone, PyNone, PyNone)
Prim1(op, x) == Prim(op, x, PyNone, PyNone, PyNone, PyNone)

\* bool(v) for None, strings and lists
Truthy(v) ==
    CASE v.t = "none" -> FALSE
      [] v.t = "str" -> v.s # ""
      [] IsSeq(v) -> Len(v.l) > 0
      [] OTHER -> TRUE

\* the length of the first dimension of a plotted value; a scalar has 1
ShapeLen(v) == IF IsSeq(v) THEN Len(v.l) ELSE 1

\* the result of a method: the exception raised ("none" when it returns),
\* the object afterwards and the primitives it issued before returning or
\* raising
Result(e, c, issued) == [err |-> e, chart |-> c, calls |-> issued]

(***************************************************************************)
(* BasePlot: the template                                                  *)
(***************************************************************************)
\* BasePlot.check_inputs
BasePlot_check_inputs(c) == Result("none", c, <<>>)

SingleBarChart_check_inputs_all(c) ==
    LET y == c.y_data.l
        is_list_of_lists == \A i \in 1..Len(y) : y[i].t = "list"
        is_list_of_arrays == \A i \in 1..Len(y) : y[i].t = "array"
    IN  IF is_list_of_arrays \/ is_list_of_lists
        THEN Result("InvalidInputException", c, <<>>)
        ELSE Result("none", c, <<>>)

SingleBarChart_check_inputs_lists_only(c) ==
    LET y == c.y_data.l
        is_list_of_lists == \E i \in 1..Len(y) : y[i].t = "list"
    IN  IF is_list_of_lists
        THEN Result("InvalidInputException", c, <<>>)
        ELSE Result("none", c, <<>>)

\* SingleBarChart.check_inputs
SingleBarChart_check_inputs(c) ==
    LET y == c.y_data.l
        is_list_of_lists == \E i \in 1..Len(y) : y[i].t = "list"
        is_list_of_arrays == \E i \in 1..Len(y) : y[i].t = "array"
    IN  IF is_list_of_arrays \/ is_list_of_lists
        THEN Result("InvalidInputException", c, <<>>)
        ELSE Result("none", c, <<>>)

\* BasePlot.get_min_max
BasePlot_get_min_max(c) ==
    LET cx == c.converted_x_data.l
        c1 == [c EXCEPT !.min_x = PyMin(cx), !.max_x = PyMax(cx)]
        y == c.y_data.l
    IN  IF Len(cx) = 0 THEN Result("ValueError", c, <<>>)
        ELSE IF ~Truthy(c.y_data) THEN Result("none", c1, <<>>)
        ELSE IF \A i \in 1..Len(y) : IsSeq(y[i])
        THEN \* min(min(y_arr) for y_arr in y_data)
             IF \E i \in 1..Len(y) : Len(y[i].l) = 0
             THEN Result("ValueError", c1, <<>>)
             ELSE Result("none",
                         [c1 EXCEPT !.min_y = PyMin([i \in 1..Len(y) |-> PyMin(y[i].l)]),
                                    !.max_y = PyMax([i \in 1..Len(y) |-> PyMax(y[i].l)])],
                         <<>>)
        ELSE \* min(<scalar>) raised TypeError: min(y_data)
             IF \A i \in 1..Len(y) : IsNum(y[i])
             THEN Result("none",
                         [c1 EXCEPT !.min_y = PyMin(y), !.max_y = PyMax(y)], <<>>)
             ELSE Result("TypeError", c1, <<>>)

\* Histogram.get_min_max
Histogram_get_min_max(c) == Result("none", c, <<>>)

\* [str(x) for x in tick_range], with an optional suffix
TickStrings(tick_range, suffix) ==
    [i \in 1..Len(tick_range) |-> PyStr(ToString(tick_range[i].n) \o suffix)]

\* BasePlot.get_ticks.  strict: whether the installed pyplot rejects a list of
\* tick labels whose length differs from the number of tick positions
BasePlot_get_ticks(c, strict) ==
    IF \/ c.min_y.t # "int" \/ c.max_y.t # "int"
       \/ c.min_x.t # "int" \/ c.max_x.t # "int"
    THEN Result("TypeError", c, <<>>)
    ELSE LET y_tick_range == PyRange(c.min_y.n, c.max_y.n + c.diff_y_ticks,
                                     c.diff_y_ticks)
             x_tick_range == PyRange(c.min_x.n, c.max_x.n + c.diff_x_ticks,
                                     c.diff_x_ticks)
             yticks == Prim("yticks", PyList(y_tick_range),
                            PyList(TickStrings(y_tick_range, "")),
                            PyNone, PyNone, PyNone)
             labels == IF c.x_data.l[1].t = "str" THEN c.x_data
                       ELSE PyList(x_tick_range)
             xticks == Prim("xticks", PyList(x_tick_range), labels,
                            PyNone, PyNone, PyNone)
         IN  IF strict /\ Len(labels.l) # Len(x_tick_range)
             THEN Result("ValueError", c, <<yticks, xticks>>)
             ELSE Result("none", c, <<yticks, xticks>>)

\* Histogram.get_ticks
Histogram_get_ticks(c) ==
    LET y_tick_range == PyRange(c.min_y.n, c.max_y.n + c.diff_y_ticks,
                                c.diff_y_ticks)
        x_tick_range == FloatArange(PyMin(c.bins.l),
                                    Add(PyMax(c.bins.l), PyInt(c.diff_x_ticks)),
                                    PyInt(c.diff_x_ticks))
    IN  Result("none", c,
               << Prim("yticks", PyList(y_tick_range),
                       PyList(TickStrings(y_tick_range, "%")),
                       PyNone, PyNone, PyNone),
                  Prim("xticks", PyArray(x_tick_range),
                       PyList([i \in 1..Len(x_tick_range) |->
                                  PyInt(Trunc(x_tick_range[i]))]),
                       PyNone, PyNone, PyNone) >>)

\* BasePlot.get_grid_range
BasePlot_get_grid_range(c) == Result("NotImplementedError", c, <<>>)

\* LineChart.get_grid_range
LineChart_get_grid_range(c) ==
    Result("none",
           [c EXCEPT !.grid_range =
                PyArray(IntArange(c.min_x.n, c.max_x.n + c.diff_x_ticks))],
           <<>>)

SingleBarChart_get_grid_range_unsorted(c) ==
    LET grid_range ==
            IntArange(c.min_x.n, c.max_x.n + 1)
                \o <<Sub(c.min_x, Mul(PyFloat(1, 2), DEFAULT_BAR_WIDTH))>>
                \o <<Add(c.max_x, Mul(PyFloat(1, 2), DEFAULT_BAR_WIDTH))>>
    IN  Result("none", [c EXCEPT !.grid_range = PyList(grid_range)], <<>>)

\* SingleBarChart.get_grid_range
SingleBarChart_get_grid_range(c) ==
    LET grid_range ==
            IntArange(c.min_x.n, c.max_x.n + 1)
                \o <<Sub(c.min_x, Mul(PyFloat(1, 2), DEFAULT_BAR_WIDTH))>>
                \o <<Add(c.max_x, Mul(PyFloat(1, 2), DEFAULT_BAR_WIDTH))>>
    IN  Result("none", [c EXCEPT !.grid_range = PyList(Sorted(grid_range))], <<>>)

\* bar_width * len(y_data) / 2
HalfSpan(c) == Div(Mul(c.bar_width, PyInt(Len(c.y_data.l))), PyInt(2))

\* MultipleBarChart.get_grid_range
MultipleBarChart_get_grid_range(c) ==
    LET grid_range ==
            IntArange(c.min_x.n, c.max_x.n + 1)
                \o <<Sub(c.min_x, HalfSpan(c))>>
                \o <<Add(c.max_x, HalfSpan(c))>>
    IN  Result("none", [c EXCEPT !.grid_range = PyList(Sorted(grid_range))], <<>>)

\* Histogram.get_grid_range
Histogram_get_grid_range(c) ==
    LET lo == PyMin(c.bins.l)
        hi == PyMax(c.bins.l)
        step == Div(Sub(hi, lo), PyInt(Len(c.bins.l)))
    IN  Result("none",
               [c EXCEPT !.grid_range =
                    PyList(Append(FloatArange(lo, hi, step), hi))],
               <<>>)

\* BasePlot.get_grid
BasePlot_get_grid(c) ==
    LET ys == PyRange(c.min_y.n, c.max_y.n + c.diff_y_ticks, c.diff_y_ticks)
    IN  Result("none", c,
               [i \in 1..Len(ys) |->
                   Prim("plot", c.grid_range,
                        PyList([j \in 1..Len(c.grid_range.l) |-> ys[i]]),
                        PyStr("black"), PyNone, PyStr("--"))])

\* BasePlot.plot
BasePlot_plot(c, palette) == Result("NotImplementedError", c, <<>>)

\* label=self.y_descriptors[index] if self.y_descriptors else None
LabelAt(c, index) ==
    IF Truthy(c.y_descriptors) THEN c.y_descriptors.l[index] ELSE PyNone

\* the exception raised while the arguments of the call for the series at
\* index (1-based) are evaluated, "none" when there is none
ArgError(c, palette, index) ==
    IF index > Len(palette) THEN "IndexError"
    ELSE IF Truthy(c.y_descriptors) /\ index > Len(c.y_descriptors.l)
    THEN "IndexError"
    ELSE "none"

\* the first iteration of a loop that raises, given the exception each
\* iteration would raise ("none" for none); one past the last when none does
FirstFailure(errors) ==
    IF \E i \in 1..Len(errors) : errors[i] # "none"
    THEN CHOOSE i \in 1..Len(errors) :
            errors[i] # "none" /\ \A j \in 1..(i - 1) : errors[j] = "none"
    ELSE Len(errors) + 1

\* LineChart.plot: plt.plot raises ValueError when x and y differ in length
LineChart_plot(c, palette) ==
    LET y == c.y_data.l
        Error(i) ==
            IF ArgError(c, palette, i) # "none" THEN ArgError(c, palette, i)
            ELSE IF ShapeLen(y[i]) # Len(c.x_data.l) THEN "ValueError"
            ELSE "none"
        f == FirstFailure([i \in 1..Len(y) |-> Error(i)])
    IN  Result(IF f <= Len(y) THEN Error(f) ELSE "none", c,
               [i \in 1..(f - 1) |->
                   Prim("plot", c.x_data, y[i], palette[i], LabelAt(c, i),
                        PyNone)])

\* whether plt.bar can broadcast n positions against a value of m heights
Broadcasts(n, m) == n = m \/ n = 1 \/ m = 1

\* SingleBarChart.plot
SingleBarChart_plot(c, palette) ==
    IF ~Broadcasts(Len(c.converted_x_data.l), Len(c.y_data.l))
    THEN Result("ValueError", c, <<>>)
    ELSE Result("none", c,
                << Prim("bar", c.converted_x_data, c.y_data, palette[1],
                        LabelAt(c, 1), PyNone) >>)

\* the bar positions of the series at index (1-based): start_step after
\* index - 1 shifts by bar_width
StartStep(c, index) ==
    PyArray([j \in 1..Len(c.converted_x_data.l) |->
        Add(Add(Sub(c.converted_x_data.l[j], HalfSpan(c)),
                Mul(PyFloat(1, 2), c.bar_width)),
            Mul(PyInt(index - 1), c.bar_width))])

MultipleBarChart_plot_in_place(c, palette) ==
    LET y == c.y_data.l
        Error(i) ==
            IF ArgError(c, palette, i) # "none" THEN ArgError(c, palette, i)
            ELSE IF ~Broadcasts(Len(c.converted_x_data.l), ShapeLen(y[i]))
            THEN "ValueError"
            ELSE "none"
        f == FirstFailure([i \in 1..Len(y) |-> Error(i)])
    IN  Result(IF f <= Len(y) THEN Error(f) ELSE "none",
               [c EXCEPT !.converted_x_data = StartStep(c, f)],
               [i \in 1..(f - 1) |->
                   Prim("bar", StartStep(c, i), y[i], palette[i],
                        LabelAt(c, i), c.bar_width)])

\* MultipleBarChart.plot: start_step is a new array, so shifting it in place
\* leaves converted_x_data alone
MultipleBarChart_plot(c, palette) ==
    LET y == c.y_data.l
        Error(i) ==
            IF ArgError(c, palette, i) # "none" THEN ArgError(c, palette, i)
            ELSE IF ~Broadcasts(Len(c.converted_x_data.l), ShapeLen(y[i]))
            THEN "ValueError"
            ELSE "none"
        f == FirstFailure([i \in 1..Len(y) |-> Error(i)])
    IN  Result(IF f <= Len(y) THEN Error(f) ELSE "none", c,
               [i \in 1..(f - 1) |->
                   Prim("bar", StartStep(c, i), y[i], palette[i],
                        LabelAt(c, i), c.bar_width)])

\* Histogram.plot
Histogram_plot(c, palette) ==
    IF Len(c.x_data.l) > Len(palette) THEN Result("IndexError", c, <<>>)
    ELSE Result("none", c,
                << Prim("hist", c.x_data, c.num_bins,
                        PyList([i \in 1..Len(c.x_data.l) |-> palette[i]]),
                        PyNone, PyStr("black")) >>)

\* BasePlot.include_text
BasePlot_include_text(c) ==
    Result("none", c,
           (IF Truthy(c.title) THEN <<Prim1("title", c.title)>> ELSE <<>>)
        \o (IF Truthy(c.x_axis_label) THEN <<Prim1("xlabel", c.x_axis_label)>> ELSE <<>>)
        \o (IF Truthy(c.y_axis_label) THEN <<Prim1("ylabel", c.y_axis_label)>> ELSE <<>>)
        \o (IF Truthy(c.y_descriptors) THEN <<Prim0("legend")>> ELSE <<>>)
        \o <<Prim0("show")>>)

(***************************************************************************)
(* A render: BasePlot.__call__ and BasePlot.set_up_chart, one method per   *)
(* step                                                                    *)
(***************************************************************************)
\* the method named by pc runs with result out; on return next runs
Step(name, next, out) ==
    /\ pc = name
    /\ stages' = Append(stages, name)
    /\ chart' = out.chart
    /\ calls' = calls \o out.calls
    /\ err' = out.err
    /\ pc' = IF out.err = "none" THEN next ELSE "error"
    /\ UNCHANGED tableau20

\* chart()
Call ==
    /\ Idle
    /\ chart.variant # "none"
    /\ pc' = "check_inputs"
    /\ err' = "none"
    /\ calls' = <<>>
    /\ stages' = <<>>
    /\ UNCHANGED <<chart, rc, tableau20>>

CheckInputs ==
    /\ Step("check_inputs", "set_font",
            IF chart.variant = "SingleBarChart"
            THEN SingleBarChart_check_inputs(chart)
            ELSE BasePlot_check_inputs(chart))
    /\ UNCHANGED rc

\* BasePlot.set_font
SetFont ==
    /\ Step("set_font", "subplot",
            Result("none", chart, <<Prim1("rc", PyStr("text")),
                                    Prim1("rc", PyStr("font"))>>))
    /\ rc' = [usetex |-> TRUE, family |-> "serif"]

\* self.ax = plt.subplot(111)
Subplot ==
    /\ Step("subplot", "remove_spines",
            Result("none", [chart EXCEPT !.ax = PyStr("axes")],
                   <<Prim1("subplot", PyInt(111))>>))
    /\ UNCHANGED rc

\* BasePlot.remove_spines
RemoveSpines ==
    /\ Step("remove_spines", "get_min_max",
            Result("none", chart,
                   << Prim1("spine.set_visible", PyStr("top")),
                      Prim1("spine.set_visible", PyStr("bottom")),
                      Prim1("spine.set_visible", PyStr("right")),
                      Prim1("spine.set_visible", PyStr("left")) >>))
    /\ UNCHANGED rc

GetMinMax ==
    /\ Step("get_min_max", "get_ticks",
            IF chart.variant = "Histogram"
            THEN Histogram_get_min_max(chart)
            ELSE BasePlot_get_min_max(chart))
    /\ UNCHANGED rc

GetTicks ==
    /\ \E strict \in BOOLEAN :
          Step("get_ticks", "get_grid_range",
               IF chart.variant = "Histogram"
               THEN Histogram_get_ticks(chart)
               ELSE BasePlot_get_ticks(chart, strict))
    /\ UNCHANGED rc

GetGridRange ==
    /\ Step("get_grid_range", "get_grid",
            CASE chart.variant = "LineChart" -> LineChart_get_grid_range(chart)
              [] chart.variant = "SingleBarChart" ->
                    SingleBarChart_get_grid_range(chart)
              [] chart.variant = "MultipleBarChart" ->
                    MultipleBarChart_get_grid_range(chart)
              [] chart.variant = "Histogram" -> Histogram_get_grid_range(chart)
              [] OTHER -> BasePlot_get_grid_range(chart))
    /\ UNCHANGED rc

GetGrid ==
    /\ Step("get_grid", "plot", BasePlot_get_grid(chart))
    /\ UNCHANGED rc

Plot ==
    /\ Step("plot", "include_text",
            CASE chart.variant = "LineChart" -> LineChart_plot(chart, tableau20)
              [] chart.variant = "SingleBarChart" ->
                    SingleBarChart_plot(chart, tableau20)
              [] chart.variant = "MultipleBarChart" ->
                    MultipleBarChart_plot(chart, tableau20)
              [] chart.variant = "Histogram" -> Histogram_plot(chart, tableau20)
              [] OTHER -> BasePlot_plot(chart, tableau20))
    /\ UNCHANGED rc

IncludeText ==
    /\ Step("include_text", "show", BasePlot_include_text(chart))
    /\ UNCHANGED rc

\* the plt.show() that ends BasePlot.__call__
Show ==
    /\ Step("show", "done", Result("none", chart, <<Prim0("show")>>))
    /\ UNCHANGED rc

Next ==
    \/ Construct
    \/ ConstructHistogram
    \/ Discard
    \/ Call
    \/ CheckInputs
    \/ SetFont
    \/ Subplot
    \/ RemoveSpines
    \/ GetMinMax
    \/ GetTicks
    \/ GetGridRange
    \/ GetGrid
    \/ Plot
    \/ IncludeText
    \/ Show

Spec == Init /\ [][Next]_vars

(***************************************************************************)
(* Vocabulary of the properties                                            *)
(***************************************************************************)
\* the method has run in the render in progress (or the last one)
HasRun(name) == \E i \in 1..Len(stages) : stages[i] = name

\* the primitives of the render with the given name
CallsOf(op) == SelectSeq(calls, LAMBDA p : p.op = op)

\* the series lines: the plt.plot calls that are not dashed gridlines
SeriesLines == SelectSeq(calls, LAMBDA p : p.op = "plot" /\ p.extra = PyNone)

\* some element of the y series is itself a list or an array
HasNestedY(c) == \E i \in 1..Len(c.y_data.l) : c.y_data.l[i].t \in {"list", "array"}

AllStrings(v) == \A i \in 1..Len(v.l) : v.l[i].t = "str"
AllInts(v) == \A i \in 1..Len(v.l) : v.l[i].t = "int"

Lifecycle ==
    <<"check_inputs", "set_font", "subplot", "remove_spines", "get_min_max",
      "get_ticks", "get_grid_range", "get_grid", "plot", "include_text", "show">>

\* C1: a render that runs to completion has performed the stages of the
\* lifecycle in order, each exactly once, and has flushed the display exactly
\* once, as its last primitive.
C1_LifecycleWithOneFlush ==
    pc = "done" =>
        /\ stages = Lifecycle
        /\ Len(CallsOf("show")) = 1
        /\ calls[Len(calls)].op = "show"

\* C2: when check_inputs runs on a Single-Bar chart whose y series has an
\* element that is a list or an array, it raises InvalidInputException, and at
\* that moment the render has issued no primitive and has left the rc settings
\* and the chart object as they were when it began.
C2_NestedRejectedBeforeDrawing ==
    [][(/\ pc = "check_inputs"
        /\ chart.variant = "SingleBarChart"
        /\ HasNestedY(chart))
         => /\ calls = <<>>
            /\ pc' = "error"
            /\ err' = "InvalidInputException"
            /\ calls' = <<>>
            /\ rc' = rc
            /\ chart' = chart]_vars

C2_Witness ==
    /\ chart.variant = "SingleBarChart"
    /\ chart.y_data = MixedY
    /\ pc = "error"
    /\ err = "InvalidInputException"
    /\ stages = <<"check_inputs">>

\* C3 as stated: no Single-Bar chart object holding a nested y series exists.
C3_NoNestedSingleBarConstructed ==
    ~(chart.variant = "SingleBarChart" /\ HasNestedY(chart))

\* C3 as amended: a Single-Bar chart with a nested y series is constructed,
\* but whatever its x, a render of it never gets past check_inputs and ends
\* with InvalidInputException.
C3_NestedSingleBarNeverRenders ==
    (chart.variant = "SingleBarChart" /\ HasNestedY(chart)) =>
        /\ pc \in {"idle", "check_inputs", "error"}
        /\ pc = "error" => (err = "InvalidInputException" /\ stages = <<"check_inputs">>)

C3_Witness ==
    /\ chart.variant = "SingleBarChart"
    /\ \A i \in 1..Len(chart.y_data.l) : chart.y_data.l[i].t = "array"
    /\ Len(chart.y_data.l) = 2
    /\ Len(chart.x_data.l) = 0
    /\ pc = "error"
    /\ err = "InvalidInputException"

\* a line chart whose k >= 1 y series all have the length of its numeric x
WellFormedLineChart(c) ==
    /\ c.variant = "LineChart"
    /\ AllInts(c.x_data)
    /\ Len(c.y_data.l) >= 1
    /\ \A i \in 1..Len(c.y_data.l) :
          IsSeq(c.y_data.l[i]) /\ Len(c.y_data.l[i].l) = Len(c.x_data.l)

\* C4: once the draw step of a line chart with k series has run, it has issued
\* exactly k series lines, and series i has the palette colour i mod 20.
C4_OneLinePerSeriesModuloPalette ==
    (WellFormedLineChart(chart) /\ HasRun("plot")) =>
        /\ Len(SeriesLines) = Len(chart.y_data.l)
        /\ \A i \in 1..Len(SeriesLines) :
              SeriesLines[i].color = tableau20[((i - 1) % 20) + 1]

\* C5: a render that aborts has produced no output: it has issued no
\* primitive.
C5_NoPartialFailure ==
    pc = "error" => calls = <<>>

\* a Single-Bar chart over n >= 1 string labels with n flat heights
WellFormedCategoricalBarChart(c) ==
    /\ c.variant = "SingleBarChart"
    /\ Len(c.x_data.l) >= 1
    /\ AllStrings(c.x_data)
    /\ AllInts(c.y_data)
    /\ Len(c.y_data.l) = Len(c.x_data.l)
    /\ c.diff_x_ticks > 0

\* C6: once get_ticks has run on such a chart, the x ticks are the n positions
\* 0..n-1 labelled with the n labels in order; once plot has run the n bars are
\* at 0..n-1; and the render does not abort.
C6_CategoricalTicksMatchLabels ==
    (WellFormedCategoricalBarChart(chart) /\ HasRun("get_ticks")) =>
        /\ pc # "error"
        /\ Len(CallsOf("xticks")) = 1
        /\ CallsOf("xticks")[1].x.l = Positions(Len(chart.x_data.l)).l
        /\ CallsOf("xticks")[1].y.l = chart.x_data.l
        /\ HasRun("plot") =>
              /\ Len(CallsOf("bar")) = 1
              /\ CallsOf("bar")[1].x.l = Positions(Len(chart.x_data.l)).l

\* half the effective bar-width span, as the claim gives it
ClaimedHalfSpan(c) ==
    IF c.variant = "SingleBarChart" THEN PyFloat(4, 10)
    ELSE IF Len(c.y_data.l) < 5 THEN PyFloat(Len(c.y_data.l), 8)
    ELSE PyFloat(Len(c.y_data.l), 20)

\* C7: after get_grid_range of a bar chart the grid range is sorted ascending
\* and consists of the integers min_x..max_x between min_x - h and max_x + h,
\* which lie strictly outside [min_x, max_x].
C7_BarGridRangePadded ==
    (chart.variant \in {"SingleBarChart", "MultipleBarChart"}
        /\ HasRun("get_grid_range")) =>
        LET g == chart.grid_range.l
            h == ClaimedHalfSpan(chart)
            lo == chart.min_x.n
            hi == chart.max_x.n
        IN  /\ Len(g) = (hi - lo + 1) + 2
            /\ \A i \in 1..(Len(g) - 1) : ~Less(g[i + 1], g[i])
            /\ \A k \in lo..hi : g[k - lo + 2] = PyInt(k)
            /\ g[1] = Sub(PyInt(lo), h)
            /\ g[Len(g)] = Add(PyInt(hi), h)
            /\ Less(g[1], PyInt(lo))
            /\ Less(PyInt(hi), g[Len(g)])

C7_Witness ==
    /\ chart.variant = "MultipleBarChart"
    /\ Len(chart.y_data.l) >= 5
    /\ Len(chart.x_data.l) = 2
    /\ pc = "get_grid"

\* the number of samples of a sequence in bin b of num_bins equal-width bins
\* over [min, max] (widened by a half on each side when min = max), counted
\* in doubled units so that the bin edges are compared exactly
BinCount(samples, num_bins, b) ==
    LET vs == {samples[i].n : i \in 1..Len(samples)}
        mn == CHOOSE v \in vs : \A w \in vs : v <= w
        mx == CHOOSE v \in vs : \A w \in vs : w <= v
        L == IF mn = mx THEN 2 * mn - 1 ELSE 2 * mn
        H == IF mn = mx THEN 2 * mx + 1 ELSE 2 * mx
        InBin(v) ==
            /\ (b - 1) * (H - L) <= (2 * v - L) * num_bins
            /\ \/ (2 * v - L) * num_bins < b * (H - L)
               \/ b = num_bins /\ 2 * v = H
    IN  Cardinality({i \in 1..Len(samples) : InBin(samples[i].n)})

\* C8: a histogram's min_y is 0 and its max_y is the largest per-bin count
\* over all bins of all input sequences, from construction on and across
\* renders.
C8_HistogramYRange ==
    chart.variant = "Histogram" =>
        LET counts == {BinCount(chart.x_data.l[i].l, chart.num_bins.n, b) :
                          i \in 1..Len(chart.x_data.l), b \in 1..chart.num_bins.n}
        IN  /\ chart.min_y = PyInt(0)
            /\ chart.max_y.t = "int"
            /\ chart.max_y.n \in counts
            /\ \A n \in counts : n <= chart.max_y.n

C8_Witness ==
    /\ chart.variant = "Histogram"
    /\ Len(chart.x_data.l) = 2
    /\ chart.num_bins.n = 2
    /\ pc = "done"

\* C9: a Multi-Bar chart's bar width is 0.25 with fewer than 5 series and 0.1
\* with 5 or more, from construction on and across renders.
C9_BarWidthHeuristic ==
    chart.variant = "MultipleBarChart" =>
        /\ Len(chart.y_data.l) < 5 => chart.bar_width = PyFloat(25, 100)
        /\ Len(chart.y_data.l) >= 5 => chart.bar_width = PyFloat(1, 10)

C9_Witness ==
    /\ chart.variant = "MultipleBarChart"
    /\ Len(chart.y_data.l) = 5
    /\ pc = "done"

\* what a chart is given at construction
Config(c) ==
    <<c.variant, c.x_data, c.converted_x_data, c.y_data, c.diff_x_ticks,
      c.diff_y_ticks, c.x_axis_label, c.y_axis_label, c.y_descriptors,
      c.title, c.bar_width, c.num_bins, c.bins>>

PaletteIntact ==
    /\ Len(tableau20) = 20
    /\ \A i \in 1..20 : \A j \in 1..3 :
          /\ tableau20[i].l[j] = PyFloat(PaletteRGB[i][j], 255)
          /\ ~Less(tableau20[i].l[j], PyInt(0))
          /\ ~Less(PyInt(1), tableau20[i].l[j])

\* C10: no step of a render changes what the chart was given at construction
\* (the converted x positions included), and the palette always holds its 20
\* unit-range colour triples.
C10_RenderKeepsConfiguration ==
    /\ []PaletteIntact
    /\ [][(chart.variant # "none" /\ chart'.variant # "none")
            => (Config(chart') = Config(chart) /\ tableau20' = tableau20)]_vars

C10_Witness ==
    /\ chart.variant = "MultipleBarChart"
    /\ Len(chart.y_data.l) = 2
    /\ Len(CallsOf("bar")) = 2
    /\ CallsOf("bar")[2].x # CallsOf("bar")[1].x
    /\ pc = "done"

====
